---- MODULE Spec2Model ----
(***************************************************************************)
(* ExpenseAI: the transaction categorization pipeline.                     *)
(*   server side : categorizeTransactions / categorizeTransactionsFlow     *)
(*                 (src/src/ai/flows/categorize-transactions.ts)           *)
(*   client side : Home.handleTransactionsParsed / handleUpdateCategory    *)
(*                 (src/src/app/page.tsx), FileUpload.handleUpload         *)
(*                 (src/src/components/expense-ai/file-upload.tsx)         *)
(* React state is modelled as committed values plus a queue of pending     *)
(* updates that Render applies in order (React 18 automatic batching).     *)
(***************************************************************************)
EXTENDS Integers, Sequences, FiniteSets, TLC

\* ------------------------------------------------------------------ bounds
MaxUploads == 2
MaxEdits == 1

\* ------------------------------------------------------- program constants
MAX_CHUNK_SIZE == 100

\* ----------------------------------------------------------- JS strings
\* A string is a sequence of one-character strings.
WS == {" ", "\t", "\n"}

RECURSIVE TrimStart(_)
TrimStart(s) == IF s # <<>> /\ Head(s) \in WS THEN TrimStart(Tail(s)) ELSE s

RECURSIVE TrimEnd(_)
TrimEnd(s) ==
    IF s # <<>> /\ s[Len(s)] \in WS THEN TrimEnd(SubSeq(s, 1, Len(s) - 1)) ELSE s

\* String.prototype.trim
Trim(s) == TrimEnd(TrimStart(s))

\* ------------------------------------------------------------ JS values
Null == [t |-> "null", s |-> <<>>]
Undefined == [t |-> "undefined", s |-> <<>>]
Num == [t |-> "number", s |-> <<>>]
Str(s) == [t |-> "string", s |-> s]

\* JS truthiness of a category value (null, undefined and "" are falsy; the
\* number used by the model is non-zero)
Truthy(v) == \/ v.t = "string" /\ v.s # <<>>
             \/ v.t = "number"

DEFAULT_CATEGORY == <<"O", "t", "h", "e", "r">>

\* { category: null }
NullResult == [category |-> Null]

\* Array(n).fill({ category: null })
NullFill(n) == [j \in 1..n |-> NullResult]

\* Elements of a raw model output array.  kind "object" is a JSON object whose
\* category property is `category` (Undefined when the property is missing);
\* kind "null" is a JSON null element, kind "number" a primitive element.
ObjItem(c) == [kind |-> "object", category |-> c]
NullItem == [kind |-> "null", category |-> Undefined]
NumItem == [kind |-> "number", category |-> Undefined]

\* Raw output of the prompt call.
NonArray(k) == [kind |-> k, items |-> <<>>]
NoOutput == NonArray("none")
RawArr(items) == [kind |-> "array", items |-> items]

\* Category names: some of the categories the prompt lists (shortened), and
\* a name that is not in the prompt's list.
Food == <<"F", "o", "o", "d">>
Income == <<"I", "n", "c">>
Bills == <<"B", "i", "l", "l", "s">>
Travel == <<"T", "r", "v">>
Custom == <<"Z", "z">>

\* names of properties every plain object inherits from Object.prototype
Constructor == <<"c", "o", "n", "s", "t", "r", "u", "c", "t", "o", "r">>
Proto == <<"_", "_", "p", "r", "o", "t", "o", "_", "_">>

\* the prompt's category list, as far as the model names it
Taxonomy == {Food, Income, Bills, Travel, DEFAULT_CATEGORY}

\* item.category / item?.category.  A plain property access on null or
\* undefined raises a TypeError; optional chaining yields undefined instead.
\* Result: [threw, v].
PropCategory(item, optional) ==
    IF item.kind \in {"null", "undefined"}
    THEN IF optional THEN [threw |-> FALSE, v |-> Undefined]
                     ELSE [threw |-> TRUE, v |-> Undefined]
    ELSE [threw |-> FALSE, v |-> item.category]

\* output[i] for a 1-based model index; out of range reads give undefined
ElemAt(items, i) ==
    IF i \in 1..Len(items) THEN items[i] ELSE [kind |-> "undefined", category |-> Undefined]

\* variant: typeof c === 'string' ? c.trim() : null
ValidatedCategory_KeepEmpty(c) ==
    IF c.t = "string" THEN Str(Trim(c.s)) ELSE Null

\* variant: only the categories listed in the prompt are accepted
ValidatedCategory_TaxonomyOnly(c) ==
    IF c.t = "string" /\ Trim(c.s) # <<>> /\ Trim(c.s) \in Taxonomy THEN Str(Trim(c.s)) ELSE Null

\* (typeof c === 'string' && c.trim() !== '') ? c.trim() : null
ValidatedCategory(c) ==
    IF c.t = "string" /\ Trim(c.s) # <<>> THEN Str(Trim(c.s)) ELSE Null

\* One element of the validated list: optional property access, then the
\* category check.  Result: [threw, v].
ValidateItem(item, optional) ==
    LET a == PropCategory(item, optional)
    IN [threw |-> a.threw, v |-> [category |-> ValidatedCategory(a.v)]]

\* Collects per-element outcomes into [threw, value]: the first TypeError
\* aborts the whole computation.
Collect(acc) ==
    IF \E j \in DOMAIN acc : acc[j].threw
    THEN [threw |-> TRUE, value |-> <<>>]
    ELSE [threw |-> FALSE, value |-> [j \in DOMAIN acc |-> acc[j].v]]

\* variant: the repair loop runs over the received array, not the input
CorrectedOutput_OverOutput(items, n) ==
    Collect([j \in 1..Len(items) |-> ValidateItem(ElemAt(items, j), TRUE)])

\* variant: a longer array is truncated from the front, keeping its last n elements
CorrectedOutput_FromEnd(items, n) ==
    LET shift == IF Len(items) > n THEN Len(items) - n ELSE 0
    IN Collect([j \in 1..n |-> ValidateItem(ElemAt(items, j + shift), TRUE)])

\* Length-repair path: for (i = 0; i < input.length; i++) output[i]?.category
CorrectedOutput(items, n) ==
    Collect([j \in 1..n |-> ValidateItem(ElemAt(items, j), TRUE)])

\* variant: item.category without optional chaining
ValidatedOutput_PlainAccess(items) ==
    Collect([j \in 1..Len(items) |-> ValidateItem(items[j], FALSE)])

\* Equal-length path: output.map(item => item?.category ...)
ValidatedOutput(items) ==
    Collect([j \in 1..Len(items) |-> ValidateItem(items[j], TRUE)])

\* variant: the old behaviour, a malformed output makes the flow throw
FlowValidate_NonArrayThrows(output, n) ==
    IF output.kind # "array"
    THEN [threw |-> TRUE, value |-> <<>>]
    ELSE IF Len(output.items) # n
         THEN CorrectedOutput(output.items, n)
         ELSE ValidatedOutput(output.items)

\* The part of categorizeTransactionsFlow after the prompt call returned
\* `output` for an input of length n.  Result: [threw, value].
FlowValidate(output, n) ==
    IF output.kind # "array"
    THEN [threw |-> FALSE, value |-> NullFill(n)]
    ELSE IF Len(output.items) # n
         THEN CorrectedOutput(output.items, n)
         ELSE ValidatedOutput(output.items)

\* --------------------------------------------------- classifier outcomes
\* well-formed answers
GoodPool == << ObjItem(Str(Food)), ObjItem(Str(Income)), ObjItem(Str(Bills)) >>

\* answers of every kind the validator distinguishes
MixedPool ==
    << ObjItem(Str(<<" ">> \o Food \o <<" ">>)),
       ObjItem(Str(<<>>)),
       ObjItem(Null),
       NullItem,
       ObjItem(Str(Travel)),
       ObjItem(Undefined),
       ObjItem(Str(<<" ", "\t">>)),
       NumItem,
       ObjItem(Num),
       ObjItem(Str(Custom \o <<"\n">>)),
       ObjItem(Str(Income)) >>

PoolOf(p) == IF p = "good" THEN GoodPool ELSE MixedPool

\* A classifier outcome is described by a descriptor; Raw(d) is the output
\* value the prompt call resolves with.  Array elements cycle through a pool
\* starting at `seed`, so neighbouring positions carry different answers.
Desc(shape, len, pool, seed) == [shape |-> shape, len |-> len, pool |-> pool, seed |-> seed]

\* element j (1-based) of the array that descriptor d stands for
RawItem(d, j) == PoolOf(d.pool)[((d.seed + j - 1) % Len(PoolOf(d.pool))) + 1]

Raw(d) ==
    IF d.shape # "array" THEN NonArray(d.shape)
    ELSE RawArr([j \in 1..d.len |-> RawItem(d, j)])

\* Outcomes of a prompt call for a chunk of n transactions that resolve.
ResolveOutcomes(n) ==
    {Desc("null", 0, "good", 0)}
    \cup {Desc("array", n, "good", 0), Desc("array", n, "mixed", 1)}
    \cup {Desc("array", n + 2, "mixed", 2)}
    \cup (IF n > 0 THEN {Desc("array", n - 1, "mixed", 5)} ELSE {})

ThrowOutcome == Desc("throw", 0, "good", 0)

\* ------------------------------------------------------------- the input
\* Lengths of the parsed statements the model uploads.
InputLengths == {1, MAX_CHUNK_SIZE, MAX_CHUNK_SIZE + 1, 2 * MAX_CHUNK_SIZE + 1}

Amount(i) == ((i * 7) % 5) - 2

\* Transaction records produced by FileUpload.handleUpload for upload u:
\* ids are unique within and across uploads.
ParsedTransactions(u, n) ==
    [i \in 1..n |-> [id |-> <<u, i>>, date |-> (i % 28) + 1,
                     description |-> <<u, i>>, amount |-> Amount(i)]]

\* transactionsWithIds.map(({ id, category, ...rest }) => rest)
ForAI(txs) ==
    [i \in 1..Len(txs) |-> [date |-> txs[i].date, description |-> txs[i].description,
                            amount |-> txs[i].amount]]

\* ------------------------------------------------------------- variables
VARIABLES
    \* categorizeTransactions invocation (server action)
    input,          \* its argument
    results,        \* result buffer / returned list
    chunkIdx,       \* number of chunks processed so far
    inFlight,       \* a prompt call is awaiting its response
    rawLog,         \* history: the outcome descriptor of every prompt call
    sent,           \* the lists handed to categorizeTransactionsFlow so far, in call order
    lengthMismatch, \* the final length check found results.length !== input.length
    output,         \* raw prompt output handed to the validation step on its own
    pc,             \* "idle" | "parsing" | "categorizing" | "resolved" | "rejected"
    \* Home component: committed React state
    transactions,
    isLoading,
    isCategorizing,
    isUpdatingCategory,
    loadingCategories,
    \* state updates dispatched but not yet rendered, in dispatch order
    updateQueue,
    \* closure of the current handleTransactionsParsed call
    transactionsWithIds,
    successfulCategorizationCount,
    failedCategorizationCount,
    \* notifications emitted since the current upload attempt started
    toasts,
    \* number of uploads / manual edits so far
    uploads,
    edits

pipeVars == <<input, results, chunkIdx, inFlight, rawLog, sent, lengthMismatch, output, pc>>

homeVars == <<transactions, isLoading, isCategorizing, isUpdatingCategory, loadingCategories,
              updateQueue, transactionsWithIds, successfulCategorizationCount,
              failedCategorizationCount, toasts, uploads, edits>>

vars == <<input, results, chunkIdx, inFlight, rawLog, sent, lengthMismatch, output, pc,
          transactions, isLoading,
          isCategorizing, isUpdatingCategory, loadingCategories, updateQueue, transactionsWithIds,
          successfulCategorizationCount, failedCategorizationCount, toasts,
          uploads, edits>>

Min(a, b) == IF a < b THEN a ELSE b

\* variant: input.length >= MAX_CHUNK_SIZE
Chunked_AtLimit(inp) == Len(inp) >= MAX_CHUNK_SIZE

\* if (input.length > MAX_CHUNK_SIZE)
Chunked(inp) == Len(inp) > MAX_CHUNK_SIZE

\* variant: input.slice(i, i + MAX_CHUNK_SIZE + 1), neighbouring chunks overlap
Chunks_Overlap(inp) ==
    [k \in 1..((Len(inp) + MAX_CHUNK_SIZE - 1) \div MAX_CHUNK_SIZE) |->
        SubSeq(inp, (k - 1) * MAX_CHUNK_SIZE + 1, Min(k * MAX_CHUNK_SIZE + 1, Len(inp)))]

\* for (i = 0; i < input.length; i += MAX_CHUNK_SIZE) chunks.push(input.slice(i, i + MAX_CHUNK_SIZE))
Chunks(inp) ==
    [k \in 1..((Len(inp) + MAX_CHUNK_SIZE - 1) \div MAX_CHUNK_SIZE) |->
        SubSeq(inp, (k - 1) * MAX_CHUNK_SIZE + 1, Min(k * MAX_CHUNK_SIZE, Len(inp)))]

\* The list the next flow invocation receives.
CurrentChunk == IF Chunked(input) THEN Chunks(input)[chunkIdx + 1] ELSE input

\* Final length check after processing all chunks: pad with nulls / truncate.
FinalLengthCheck(res, n) ==
    IF Len(res) # n
    THEN IF Len(res) < n THEN res \o NullFill(n - Len(res)) ELSE SubSeq(res, 1, n)
    ELSE res

\* variant: the fill is one entry short
ChunkErrorFill_Short(chunk) == NullFill(Len(chunk) - 1)

\* variant: Array(MAX_CHUNK_SIZE) instead of Array(chunk.length)
ChunkErrorFill_FullSize(chunk) == NullFill(MAX_CHUNK_SIZE)

\* Chunked path: what the catch block pushes for a chunk whose flow threw.
ChunkErrorFill(chunk) == NullFill(Len(chunk))

\* Chunked path, end of one loop iteration: chunkResult has been pushed.
PushChunk(chunkResult) ==
    LET pushed == results \o chunkResult
        last == chunkIdx + 1 = Len(Chunks(input))
    IN /\ chunkIdx' = chunkIdx + 1
       /\ results' = IF last THEN FinalLengthCheck(pushed, Len(input)) ELSE pushed
       /\ lengthMismatch' = (lengthMismatch \/ (last /\ Len(pushed) # Len(input)))
       /\ pc' = IF last THEN "resolved" ELSE pc

\* variant: a call that threw right after a call that did not is issued again
FlowThrew_RetryOnce ==
    IF rawLog = <<>> \/ rawLog[Len(rawLog)].shape # "throw"
    THEN UNCHANGED <<results, chunkIdx, pc, lengthMismatch>>
    ELSE IF Chunked(input)
         THEN PushChunk(ChunkErrorFill(CurrentChunk))
         ELSE /\ pc' = "rejected"
              /\ UNCHANGED <<results, chunkIdx, lengthMismatch>>

\* variant: no try/catch around the chunk's flow call
FlowThrew_NoCatch ==
    /\ pc' = "rejected"
    /\ UNCHANGED <<results, chunkIdx, lengthMismatch>>

\* variant: the single-chunk path also swallows the error
FlowThrew_Swallow ==
    IF Chunked(input)
    THEN PushChunk(ChunkErrorFill(CurrentChunk))
    ELSE /\ pc' = "resolved"
         /\ results' = NullFill(Len(input))
         /\ chunkIdx' = chunkIdx + 1
         /\ UNCHANGED lengthMismatch

\* The flow invocation for the current chunk ended by throwing.
FlowThrew ==
    IF Chunked(input)
    THEN PushChunk(ChunkErrorFill(CurrentChunk))
    ELSE /\ pc' = "rejected"
         /\ UNCHANGED <<results, chunkIdx, lengthMismatch>>

\* The flow invocation for the current chunk returned value.
FlowReturned(value) ==
    IF Chunked(input)
    THEN PushChunk(value)
    ELSE /\ pc' = "resolved"
         /\ results' = value
         /\ chunkIdx' = chunkIdx + 1
         /\ UNCHANGED lengthMismatch

\* variant: the loop starts the next call without awaiting the previous one
Awaited_FireAndForget == TRUE

\* `await categorizeTransactionsFlow(chunk)` / `return categorizeTransactionsFlow(input)`:
\* control reaches the next call only once the previous call has settled.
Awaited == ~inFlight

\* categorizeTransactionsFlow up to `await prompt(promptInput)`.  The server
\* action's steps touch no Home state; they are ordered after the render that
\* the dispatching browser task scheduled.
CallFlow ==
    /\ pc = "categorizing"
    /\ Awaited
    /\ updateQueue = <<>>
    /\ inFlight' = TRUE
    /\ sent' = Append(sent, CurrentChunk)
    /\ UNCHANGED <<input, results, chunkIdx, rawLog, lengthMismatch, output, pc>>
    /\ UNCHANGED homeVars

\* the prompt call resolves with a raw output; validation; back in the caller
PromptResolves ==
    /\ pc = "categorizing"
    /\ inFlight
    /\ \E d \in ResolveOutcomes(Len(CurrentChunk)) :
          LET r == FlowValidate(Raw(d), Len(CurrentChunk))
          IN /\ rawLog' = Append(rawLog, d)
             /\ IF r.threw THEN FlowThrew ELSE FlowReturned(r.value)
    /\ inFlight' = FALSE
    /\ UNCHANGED <<input, output, sent>>
    /\ UNCHANGED homeVars

\* the prompt call rejects (network, quota, model error)
PromptRejects ==
    /\ pc = "categorizing"
    /\ inFlight
    /\ rawLog' = Append(rawLog, ThrowOutcome)
    /\ FlowThrew
    /\ inFlight' = FALSE
    /\ UNCHANGED <<input, output, sent>>
    /\ UNCHANGED homeVars

\* ------------------------------------------------------------ Home state
\* const [transactions, ...] = useState([]); isLoading false; empty set
HomeInit ==
    /\ transactions = <<>>
    /\ isLoading = FALSE
    /\ isCategorizing = FALSE
    /\ isUpdatingCategory = FALSE
    /\ loadingCategories = {}
    /\ updateQueue = <<>>
    /\ transactionsWithIds = <<>>
    /\ successfulCategorizationCount = 0
    /\ failedCategorizationCount = 0
    /\ toasts = <<>>
    /\ uploads = 0
    /\ edits = 0

\* Lengths of the lists categorizeTransactions is called with directly.
PipelineLengths == InputLengths \cup {0, MAX_CHUNK_SIZE + 50, 2 * MAX_CHUNK_SIZE}

\* categorizeTransactions called directly on a list of any length
InitPipeline ==
    /\ \E n \in PipelineLengths : input = ForAI(ParsedTransactions(1, n))
    /\ results = <<>>
    /\ chunkIdx = 0
    /\ inFlight = FALSE
    /\ rawLog = <<>>
    /\ sent = <<>>
    /\ lengthMismatch = FALSE
    /\ output = NoOutput
    /\ pc = "categorizing"
    /\ HomeInit

NextPipeline == CallFlow \/ PromptResolves \/ PromptRejects

SpecPipeline == InitPipeline /\ [][NextPipeline]_vars

\* ------------------------------------- the validation step on its own
MaxRawLen == 3
MaxExpected == 2

\* every kind of array element the validator distinguishes
ItemKinds ==
    { ObjItem(Str(Food)), ObjItem(Str(<<" ">> \o Food \o <<"\n">>)), ObjItem(Str(<<>>)),
      ObjItem(Str(<<" ", "\t">>)), ObjItem(Null), ObjItem(Undefined), ObjItem(Num),
      NullItem, NumItem, ObjItem(Str(Custom)) }

NonArrayKinds == {"null", "undefined", "object", "string", "number"}

RawOutputs ==
    {NonArray(k) : k \in NonArrayKinds}
    \cup UNION {{RawArr(items) : items \in [1..l -> ItemKinds]} : l \in 0..MaxRawLen}

\* the rest of categorizeTransactionsFlow once `await prompt(...)` has returned
FlowValidateStep ==
    /\ pc = "validating"
    /\ LET r == FlowValidate(output, Len(input))
       IN /\ pc' = IF r.threw THEN "rejected" ELSE "resolved"
          /\ results' = r.value
    /\ UNCHANGED <<input, chunkIdx, inFlight, rawLog, sent, lengthMismatch, output>>
    /\ UNCHANGED homeVars

\* the flow has received any raw output for an input of any small length
InitValidate ==
    /\ \E n \in 0..MaxExpected : input = ForAI(ParsedTransactions(1, n))
    /\ output \in RawOutputs
    /\ results = <<>>
    /\ chunkIdx = 0
    /\ inFlight = FALSE
    /\ rawLog = <<>>
    /\ sent = <<>>
    /\ lengthMismatch = FALSE
    /\ pc = "validating"
    /\ HomeInit

NextValidate == FlowValidateStep

SpecValidate == InitValidate /\ [][NextValidate]_vars

\* A pending state update: op names the hook and the kind of update.
Upd(op, arg) == [op |-> op, arg |-> arg]

\* categorizedResult[index]?.category for a 1-based model index
ResultCategory(res, i) == IF i \in 1..Len(res) THEN res[i].category ELSE Undefined

\* variant: no fallback to the default
FinalCategory_NoDefault(aiCategory) == aiCategory.s

\* aiCategory || DEFAULT_CATEGORY
FinalCategory(aiCategory) == IF Truthy(aiCategory) THEN aiCategory.s ELSE DEFAULT_CATEGORY

\* variant: transactions without an AI category are dropped from the list
ApplyResults_Filter(prev, res) ==
    LET Keep(tx) == tx.category # Str(DEFAULT_CATEGORY)
    IN SelectSeq([i \in 1..Len(prev) |->
           [prev[i] EXCEPT !.category = Str(FinalCategory(ResultCategory(res, i)))]], Keep)

\* prev.map((tx, index) => ({ ...tx, category: finalCategory }))
ApplyResults(prev, res) ==
    [i \in 1..Len(prev) |->
        [prev[i] EXCEPT !.category = Str(FinalCategory(ResultCategory(res, i)))]]

\* how often the updater takes the `if (aiCategory)` branch / the else branch
CountTruthy(prev, res) == Cardinality({i \in 1..Len(prev) : Truthy(ResultCategory(res, i))})
CountFalsy(prev, res) == Cardinality({i \in 1..Len(prev) : ~Truthy(ResultCategory(res, i))})

\* variant: the catch block leaves the list as it is
DefaultAll_Keep(prev) == prev

\* prev.map(tx => ({ ...tx, category: DEFAULT_CATEGORY }))
DefaultAll(prev) == [i \in 1..Len(prev) |-> [prev[i] EXCEPT !.category = Str(DEFAULT_CATEGORY)]]

\* variant: the id test is missing, every row takes the new category
UpdateCategory_All(prev, transactionId, newCategory) ==
    [i \in 1..Len(prev) |-> [prev[i] EXCEPT !.category = Str(FinalCategory(Str(newCategory)))]]

\* prevTransactions.map(tx => tx.id === transactionId ? {...tx, category: newCategory || DEFAULT_CATEGORY} : tx)
UpdateCategory(prev, transactionId, newCategory) ==
    [i \in 1..Len(prev) |->
        IF prev[i].id = transactionId
        THEN [prev[i] EXCEPT !.category = Str(FinalCategory(Str(newCategory)))]
        ELSE prev[i]]

\* The Home state a render computes from state st and one pending update.
ApplyUpdate(st, u) ==
    CASE u.op = "setTransactions" -> [st EXCEPT !.transactions = u.arg]
      [] u.op = "applyResults" ->
            [st EXCEPT !.transactions = ApplyResults(st.transactions, u.arg.res),
                       !.succ = IF u.arg.eager THEN @
                                ELSE @ + CountTruthy(st.transactions, u.arg.res),
                       !.fail = IF u.arg.eager THEN @
                                ELSE @ + CountFalsy(st.transactions, u.arg.res)]
      [] u.op = "defaultAll" -> [st EXCEPT !.transactions = DefaultAll(st.transactions)]
      [] u.op = "updateCategory" ->
            [st EXCEPT !.transactions = UpdateCategory(st.transactions, u.arg.id, u.arg.cat)]
      [] u.op = "setIsLoading" -> [st EXCEPT !.isLoading = u.arg]
      [] u.op = "setIsCategorizing" -> [st EXCEPT !.isCategorizing = u.arg]
      [] u.op = "setIsUpdatingCategory" -> [st EXCEPT !.isUpdatingCategory = u.arg]
      [] u.op = "addLoading" -> [st EXCEPT !.loadingCategories = @ \cup u.arg]
      [] u.op = "removeLoading" -> [st EXCEPT !.loadingCategories = @ \ u.arg]

RECURSIVE ApplyQueue(_, _)
ApplyQueue(st, q) == IF q = <<>> THEN st ELSE ApplyQueue(ApplyUpdate(st, Head(q)), Tail(q))

HomeState ==
    [transactions |-> transactions, isLoading |-> isLoading,
     isCategorizing |-> isCategorizing,
     isUpdatingCategory |-> isUpdatingCategory, loadingCategories |-> loadingCategories,
     succ |-> successfulCategorizationCount, fail |-> failedCategorizationCount]

\* A render pass: every pending update is applied, in order, and committed.
\* succ0/fail0 are the closure counters before the queued updaters run; qNext
\* holds the updates dispatched in a lower-priority lane, left for the next render.
Commit(succ0, fail0, q, qNext) ==
    LET st == ApplyQueue([HomeState EXCEPT !.succ = succ0, !.fail = fail0], q)
    IN /\ transactions' = st.transactions
       /\ isLoading' = st.isLoading
       /\ isCategorizing' = st.isCategorizing
       /\ isUpdatingCategory' = st.isUpdatingCategory
       /\ loadingCategories' = st.loadingCategories
       /\ successfulCategorizationCount' = st.succ
       /\ failedCategorizationCount' = st.fail
       /\ updateQueue' = qNext

Render ==
    /\ updateQueue # <<>>
    /\ Commit(successfulCategorizationCount, failedCategorizationCount, updateQueue, <<>>)
    /\ UNCHANGED <<transactionsWithIds, toasts, uploads, edits>>
    /\ UNCHANGED pipeVars

Toast(title, variant, succ, fail, errorText) ==
    [title |-> title, variant |-> variant, succeeded |-> succ, defaulted |-> fail,
     errorText |-> errorText]

\* variant: the loading flag is left out
isProcessing_TransitionsOnly == isCategorizing \/ isUpdatingCategory

\* const isProcessing = isLoading || isCategorizing || isUpdatingCategory
isProcessing == isLoading \/ isCategorizing \/ isUpdatingCategory

\* const isInitialLoading = isLoading || (isCategorizing && transactions.length > 0)
isInitialLoading == isLoading \/ (isCategorizing /\ Len(transactions) > 0)

\* const isRowSaving = isUpdatingCategory || isCategorizing (prop of TransactionTable)
isRowSaving == isUpdatingCategory \/ isCategorizing

Ids(txs) == {txs[i].id : i \in 1..Len(txs)}

\* handleTransactionsParsed, from its first line to the point where the
\* transition callback awaits categorizeTransactions (or, for an empty list,
\* to its end).  q0 / t0: the updates and toasts the caller already issued;
\* qAfter: the updates the caller dispatches after the handler returned.
\* startCategorizing marks the transition pending and, the callback having
\* returned its promise, ended, in the same batch.
HandleTransactionsParsed(parsed, q0, t0, qAfter) ==
    LET withIds == [i \in 1..Len(parsed) |->
                       [id |-> parsed[i].id, date |-> parsed[i].date,
                        description |-> parsed[i].description,
                        amount |-> parsed[i].amount, category |-> Null]]
        q1 == q0 \o << Upd("setTransactions", withIds), Upd("setIsLoading", TRUE) >>
    IN /\ transactionsWithIds' = withIds
       /\ IF Len(withIds) > 0
          THEN /\ updateQueue' = q1 \o << Upd("addLoading", Ids(withIds)),
                                          Upd("setIsCategorizing", TRUE),
                                          Upd("setIsCategorizing", FALSE) >>
                                     \o qAfter
               /\ successfulCategorizationCount' = 0
               /\ failedCategorizationCount' = 0
               /\ input' = ForAI(withIds)
               /\ results' = <<>>
               /\ chunkIdx' = 0
               /\ inFlight' = FALSE
               /\ rawLog' = <<>>
               /\ sent' = <<>>
               /\ lengthMismatch' = FALSE
               /\ pc' = "categorizing"
               /\ toasts' = t0
          ELSE /\ updateQueue' = q1 \o << Upd("setTransactions", <<>>),
                                          Upd("setIsLoading", FALSE) >> \o qAfter
               /\ toasts' = Append(t0, Toast("No Transactions Found", "default", 0, 0, FALSE))
               /\ pc' = "idle"
               /\ UNCHANGED <<successfulCategorizationCount, failedCategorizationCount,
                              input, results, chunkIdx, inFlight, rawLog, sent,
                              lengthMismatch>>

\* FileUpload.handleUpload up to `await parseBankStatement(...)`.  The Upload
\* button is enabled only while its isLoading prop (isProcessing) is false.
\* The click is a discrete event: its setIsLoading(true) is rendered before
\* the next event.
HandleUpload ==
    /\ ~isProcessing
    /\ uploads < MaxUploads
    /\ uploads' = uploads + 1
    /\ pc' = "parsing"
    /\ toasts' = <<>>
    /\ Commit(successfulCategorizationCount, failedCategorizationCount,
              Append(updateQueue, Upd("setIsLoading", TRUE)), <<>>)
    /\ rawLog' = <<>>
    /\ UNCHANGED <<transactionsWithIds, edits>>
    /\ UNCHANGED <<input, results, chunkIdx, inFlight, sent, lengthMismatch, output>>

\* parseBankStatement resolves: ids are attached, onTransactionsParsed runs
ParseResolves ==
    /\ pc = "parsing"
    /\ \E n \in InputLengths \cup {0} :
          HandleTransactionsParsed(ParsedTransactions(uploads, n), updateQueue, toasts, <<>>)
    /\ UNCHANGED <<transactions, isLoading, isCategorizing, isUpdatingCategory,
                   loadingCategories, uploads, edits, output>>

\* parseBankStatement rejects: the catch block of handleUpload
ParseRejects ==
    /\ pc = "parsing"
    /\ HandleTransactionsParsed(<<>>, updateQueue,
           Append(toasts, Toast("Parsing Error", "destructive", 0, 0, TRUE)),
           << Upd("setIsLoading", FALSE) >>)
    /\ UNCHANGED <<transactions, isLoading, isCategorizing, isUpdatingCategory,
                   loadingCategories, uploads, edits, output>>

\* The categorizeTransactions invocation has settled and its value has been
\* consumed: its frame (input, chunks, results) is gone.  rawLog, a history
\* variable, is kept.
FrameDropped ==
    /\ input' = <<>>
    /\ results' = <<>>
    /\ chunkIdx' = 0
    /\ sent' = <<>>
    /\ UNCHANGED <<inFlight, rawLog, lengthMismatch, output>>

\* variant: the finally block does not reset the loading flag
Finally_KeepLoading(q) ==
    q \o << Upd("removeLoading", Ids(transactionsWithIds)) >>

\* the finally block of the transition callback
Finally(q) ==
    q \o << Upd("removeLoading", Ids(transactionsWithIds)), Upd("setIsLoading", FALSE) >>

\* `await categorizeTransactions(...)` resolved: the rest of the try block and
\* the finally block.  eager: React ran the setTransactions updater inside the
\* setTransactions call (possible only when no update is pending); otherwise
\* the updater runs in the next render.
CategorizeResolved ==
    /\ pc = "resolved"
    /\ \E eager \in BOOLEAN :
          /\ eager => updateQueue = <<>>
          /\ LET succ == IF eager THEN successfulCategorizationCount
                                        + CountTruthy(transactions, results)
                                  ELSE successfulCategorizationCount
                 fail == IF eager THEN failedCategorizationCount
                                        + CountFalsy(transactions, results)
                                  ELSE failedCategorizationCount
             IN /\ successfulCategorizationCount' = succ
                /\ failedCategorizationCount' = fail
                /\ toasts' = Append(toasts,
                       Toast("AI Categorization Complete", "default", succ, fail, FALSE))
          /\ updateQueue' = Finally(Append(updateQueue,
                                 Upd("applyResults", [res |-> results, eager |-> eager])))
    /\ pc' = "idle"
    /\ UNCHANGED <<transactions, isLoading, isCategorizing, isUpdatingCategory,
                   loadingCategories, transactionsWithIds, uploads, edits>>
    /\ FrameDropped

\* variant: the completion toast sits after the try/catch, so it is emitted
\* on the catch path as well
CategorizeRejected_AlsoComplete ==
    /\ pc = "rejected"
    /\ toasts' = toasts \o << Toast("AI Categorization Error", "destructive", 0, 0, TRUE),
                              Toast("AI Categorization Complete", "default", 0,
                                    Len(transactionsWithIds), FALSE) >>
    /\ updateQueue' = Finally(Append(updateQueue, Upd("defaultAll", <<>>)))
    /\ failedCategorizationCount' = Len(transactionsWithIds)
    /\ pc' = "idle"
    /\ UNCHANGED <<transactions, isLoading, isCategorizing, isUpdatingCategory,
                   loadingCategories, transactionsWithIds,
                   successfulCategorizationCount, uploads, edits>>
    /\ FrameDropped

\* `await categorizeTransactions(...)` rejected: the catch and finally blocks
CategorizeRejected ==
    /\ pc = "rejected"
    /\ toasts' = Append(toasts, Toast("AI Categorization Error", "destructive", 0, 0, TRUE))
    /\ updateQueue' = Finally(Append(updateQueue, Upd("defaultAll", <<>>)))
    /\ failedCategorizationCount' = Len(transactionsWithIds)
    /\ pc' = "idle"
    /\ UNCHANGED <<transactions, isLoading, isCategorizing, isUpdatingCategory,
                   loadingCategories, transactionsWithIds,
                   successfulCategorizationCount, uploads, edits>>
    /\ FrameDropped

\* Categories the user types into the edit field
EditedCategories == {<<>>, Travel}

\* Home.handleUpdateCategory: startUpdatingCategory marks the transition
\* pending at once; the updates of the callback are rendered later, together
\* with the end of the transition.
HandleUpdateCategory(transactionId, newCategory) ==
    /\ Commit(successfulCategorizationCount, failedCategorizationCount,
              Append(updateQueue, Upd("setIsUpdatingCategory", TRUE)),
              << Upd("addLoading", {transactionId}),
                 Upd("updateCategory", [id |-> transactionId, cat |-> newCategory]),
                 Upd("removeLoading", {transactionId}),
                 Upd("setIsUpdatingCategory", FALSE) >>)
    /\ toasts' = Append(toasts, Toast("Category Updated", "default", 0, 0, FALSE))

\* TransactionTable.handleSaveClick on an enabled row
HandleSaveClick ==
    /\ ~isInitialLoading
    /\ ~isRowSaving
    /\ edits < MaxEdits
    /\ edits' = edits + 1
    /\ \E i \in {1, Len(transactions)} \cap DOMAIN transactions,
          editedCategory \in EditedCategories :
          HandleUpdateCategory(transactions[i].id,
              IF editedCategory # <<>> THEN editedCategory ELSE DEFAULT_CATEGORY)
    /\ UNCHANGED <<transactionsWithIds, uploads>>
    /\ UNCHANGED pipeVars

\* ------------------------------------- handleUpdateCategory on its own
MaxListLen == 3

\* categories a list holds once a run has finished
ListCategories == {Str(Food), Str(Income), Str(Custom)}

\* arguments handleUpdateCategory is called with: ids of the list and an id
\* that is not in it; categories the free-text field can hold, including the
\* empty string
CallIds(txs) == Ids(txs) \cup {<<0, 0>>}
CallCategories == EditedCategories \cup {Custom, Constructor, Proto}

\* a direct call of handleUpdateCategory
UpdateCall ==
    /\ edits < MaxEdits
    /\ edits' = edits + 1
    /\ \E transactionId \in CallIds(transactions), newCategory \in CallCategories :
          HandleUpdateCategory(transactionId, newCategory)
    /\ UNCHANGED <<transactionsWithIds, uploads>>
    /\ UNCHANGED pipeVars

\* a categorized list of any small length is on display, nothing is pending
InitUpdate ==
    /\ \E n \in 1..MaxListLen : \E cats \in [1..n -> ListCategories] :
          /\ transactionsWithIds =
                [i \in 1..n |-> [id |-> <<1, i>>, date |-> (i % 28) + 1,
                                 description |-> <<1, i>>, amount |-> Amount(i),
                                 category |-> Null]]
          /\ transactions =
                [i \in 1..n |-> [id |-> <<1, i>>, date |-> (i % 28) + 1,
                                 description |-> <<1, i>>, amount |-> Amount(i),
                                 category |-> cats[i]]]
    /\ isLoading = FALSE
    /\ isCategorizing = FALSE
    /\ isUpdatingCategory = FALSE
    /\ loadingCategories = {}
    /\ updateQueue = <<>>
    /\ successfulCategorizationCount = 0
    /\ failedCategorizationCount = 0
    /\ toasts = <<>>
    /\ uploads = 1
    /\ edits = 0
    /\ input = <<>>
    /\ results = <<>>
    /\ chunkIdx = 0
    /\ inFlight = FALSE
    /\ rawLog = <<>>
    /\ sent = <<>>
    /\ lengthMismatch = FALSE
    /\ output = NoOutput
    /\ pc = "idle"

NextUpdate == UpdateCall \/ Render

SpecUpdate == InitUpdate /\ [][NextUpdate]_vars

\* ------------------------------------------------ ExpenseDashboard
\* Property names every plain object inherits from Object.prototype (two of
\* them; toString, valueOf, hasOwnProperty, ... behave like `constructor`).
InheritedKeys == {Constructor, Proto}

\* Values a property of `summary` can hold or yield: a number, the string a
\* `+` with a non-number operand produces, an inherited function or object,
\* undefined.
NumVal(n) == [t |-> "number", n |-> n]
StrVal == [t |-> "string", n |-> 0]
InheritedVal == [t |-> "object", n |-> 0]
UndefVal == [t |-> "undefined", n |-> 0]

Abs(x) == IF x < 0 THEN 0 - x ELSE x

\* summary[category]: the own property, else the inherited one, else undefined.
\* summary is the list of own [category, total] entries in insertion order.
SummaryGet(summary, category) ==
    IF \E n \in DOMAIN summary : summary[n].category = category
    THEN summary[CHOOSE n \in DOMAIN summary : summary[n].category = category].total
    ELSE IF category \in InheritedKeys THEN InheritedVal ELSE UndefVal

\* (summary[category] || 0) + Math.abs(tx.amount)
Accumulate(prev, amount) ==
    LET base == IF prev.t = "undefined" \/ (prev.t = "number" /\ prev.n = 0)
                THEN NumVal(0) ELSE prev
    IN IF base.t = "number" THEN NumVal(base.n + Abs(amount)) ELSE StrVal

\* summary[category] = v.  Assigning a non-object to __proto__ is ignored.
SummarySet(summary, category, v) ==
    IF category = Proto THEN summary
    ELSE IF \E n \in DOMAIN summary : summary[n].category = category
         THEN [n \in DOMAIN summary |->
                  IF summary[n].category = category
                  THEN [category |-> category, total |-> v] ELSE summary[n]]
         ELSE Append(summary, [category |-> category, total |-> v])

\* transactions.forEach(tx => { if (tx.amount < 0) { ... } }) over the first k
RECURSIVE SummaryAfter(_, _)
SummaryAfter(txs, k) ==
    IF k = 0 THEN <<>>
    ELSE LET summary == SummaryAfter(txs, k - 1)
             tx == txs[k]
             category == IF Truthy(tx.category) THEN tx.category.s ELSE DEFAULT_CATEGORY
         IN IF tx.amount < 0
            THEN SummarySet(summary, category,
                            Accumulate(SummaryGet(summary, category), tx.amount))
            ELSE summary

\* stable insertion into a list sorted by descending total
RECURSIVE InsertDesc(_, _)
InsertDesc(sorted, e) ==
    IF sorted = <<>> THEN <<e>>
    ELSE IF Head(sorted).total.n >= e.total.n
         THEN <<Head(sorted)>> \o InsertDesc(Tail(sorted), e)
         ELSE <<e>> \o sorted

RECURSIVE SortDesc(_)
SortDesc(entries) ==
    IF entries = <<>> THEN <<>>
    ELSE InsertDesc(SortDesc(SubSeq(entries, 1, Len(entries) - 1)), entries[Len(entries)])

Reorderings(entries) ==
    {[n \in DOMAIN entries |-> entries[f[n]]] :
        f \in {g \in [DOMAIN entries -> DOMAIN entries] :
                  \A a, b \in DOMAIN entries : a # b => g[a] # g[b]}}

\* .sort((a, b) => b.total - a.total): with number totals the stable
\* descending order; a comparator that yields NaN leaves the order to the
\* engine.
SortedByTotal(entries) ==
    IF \A n \in DOMAIN entries : entries[n].total.t = "number"
    THEN {SortDesc(entries)}
    ELSE Reorderings(entries)

\* the values the expenseSummary memo can take for the displayed list
expenseSummary(txs) == SortedByTotal(SummaryAfter(txs, Len(txs)))

\* expenseSummary.reduce((sum, item) => sum + item.total, 0)
RECURSIVE totalExpenses(_)
totalExpenses(summary) ==
    IF summary = <<>> THEN NumVal(0)
    ELSE LET sum == totalExpenses(SubSeq(summary, 1, Len(summary) - 1))
             total == summary[Len(summary)].total
         IN IF sum.t = "number" /\ total.t = "number"
            THEN NumVal(sum.n + total.n) ELSE StrVal

MaxDashLen == 2

\* categories and amounts of the lists the dashboard is given
DashCategories == {Null, Str(Food), Str(DEFAULT_CATEGORY), Str(Custom)}
DashAmounts == {0 - 2, 1}

\* a categorized list of any small length is displayed, nothing is pending
InitDashboard ==
    /\ \E n \in 0..MaxDashLen :
          \E cats \in [1..n -> DashCategories], amts \in [1..n -> DashAmounts] :
              /\ transactionsWithIds =
                    [i \in 1..n |-> [id |-> <<1, i>>, date |-> (i % 28) + 1,
                                     description |-> <<1, i>>, amount |-> amts[i],
                                     category |-> Null]]
              /\ transactions =
                    [i \in 1..n |-> [id |-> <<1, i>>, date |-> (i % 28) + 1,
                                     description |-> <<1, i>>, amount |-> amts[i],
                                     category |-> cats[i]]]
    /\ isLoading = FALSE
    /\ isCategorizing = FALSE
    /\ isUpdatingCategory = FALSE
    /\ loadingCategories = {}
    /\ updateQueue = <<>>
    /\ successfulCategorizationCount = 0
    /\ failedCategorizationCount = 0
    /\ toasts = <<>>
    /\ uploads = 1
    /\ edits = 0
    /\ input = <<>>
    /\ results = <<>>
    /\ chunkIdx = 0
    /\ inFlight = FALSE
    /\ rawLog = <<>>
    /\ sent = <<>>
    /\ lengthMismatch = FALSE
    /\ output = NoOutput
    /\ pc = "idle"

\* the displayed list changes through manual edits
NextDashboard == UpdateCall \/ Render

SpecDashboard == InitDashboard /\ [][NextDashboard]_vars

Init ==
    /\ input = <<>>
    /\ results = <<>>
    /\ chunkIdx = 0
    /\ inFlight = FALSE
    /\ rawLog = <<>>
    /\ sent = <<>>
    /\ lengthMismatch = FALSE
    /\ output = NoOutput
    /\ pc = "idle"
    /\ HomeInit

Next ==
    \/ HandleUpload
    \/ ParseResolves
    \/ ParseRejects
    \/ CallFlow
    \/ PromptResolves
    \/ PromptRejects
    \/ CategorizeResolved
    \/ CategorizeRejected
    \/ Render
    \/ HandleSaveClick

Spec == Init /\ [][Next]_vars

\* Scheduling: the parser's promise and every classifier call settle, and
\* the event loop runs every continuation and every scheduled render.  The
\* user's clicks are under no obligation.
Fairness ==
    /\ WF_vars(ParseResolves \/ ParseRejects)
    /\ WF_vars(CallFlow)
    /\ WF_vars(PromptResolves \/ PromptRejects)
    /\ WF_vars(CategorizeResolved)
    /\ WF_vars(CategorizeRejected)
    /\ WF_vars(Render)

\* The upload attempts on their own: row editing is disabled from the upload
\* click until the attempt is over, so no manual edit falls inside one.
NextUpload ==
    \/ HandleUpload
    \/ ParseResolves
    \/ ParseRejects
    \/ CallFlow
    \/ PromptResolves
    \/ PromptRejects
    \/ CategorizeResolved
    \/ CategorizeRejected
    \/ Render

SpecLive == Init /\ [][NextUpload]_vars /\ Fairness


\* --------------------------------------------------------------------
\* Properties
\* --------------------------------------------------------------------
Last(q) == q[Len(q)]

TitleComplete == "AI Categorization Complete"
TitleError == "AI Categorization Error"

ToastCount(title) == Cardinality({n \in DOMAIN toasts : toasts[n].title = title})

\* the run over the uploaded statement has ended and has been rendered
RunEnded == pc = "idle" /\ updateQueue = <<>> /\ uploads > 0

\* ... and its notification is the latest one (no manual edit since)
RunJustEnded ==
    /\ RunEnded
    /\ toasts # <<>>
    /\ Last(toasts).title \in {TitleComplete, TitleError}

\* size and position of chunk k of a list of n elements
ChunkFirst(k) == (k - 1) * MAX_CHUNK_SIZE + 1
ChunkLast(k, n) == IF k * MAX_CHUNK_SIZE < n THEN k * MAX_CHUNK_SIZE ELSE n
ChunkCount(n) == (n + MAX_CHUNK_SIZE - 1) \div MAX_CHUNK_SIZE

\* the classifier threw on every call of the run
AllThrew == rawLog # <<>> /\ \A k \in DOMAIN rawLog : rawLog[k] = ThrowOutcome

AllOther == \A i \in DOMAIN transactions : transactions[i].category = Str(DEFAULT_CATEGORY)

\* C1: whenever categorizeTransactions returns a value, it is a list of
\* exactly as many results as the input has transactions (every N >= 0,
\* every combination of per-call classifier outcomes).
C1_ResultLength == pc = "resolved" => Len(results) = Len(input)

C1_Witness ==
    /\ pc = "resolved"
    /\ Len(input) = 2 * MAX_CHUNK_SIZE + 1
    /\ Len(rawLog) = 3
    /\ rawLog[1] = ThrowOutcome
    /\ rawLog[2].shape = "array" /\ rawLog[2].len # MAX_CHUNK_SIZE
    /\ rawLog[3].shape = "null"

\* C2: after a categorization run on N parsed transactions has finished (by
\* the success path or the catch path), the transaction list in state has
\* exactly N elements.
C2_StateLength == RunEnded => Len(transactions) = Len(transactionsWithIds)

C2_Witness ==
    /\ RunJustEnded
    /\ Last(toasts).title = TitleComplete
    /\ Len(transactionsWithIds) = 2 * MAX_CHUNK_SIZE + 1
    /\ \E k \in DOMAIN rawLog : rawLog[k] = ThrowOutcome
    /\ \E k \in DOMAIN rawLog : rawLog[k].shape = "array" /\ rawLog[k].pool = "mixed"

\* the categories the answer given for global index i allows at position i
AllowedAt(i) ==
    LET k == ((i - 1) \div MAX_CHUNK_SIZE) + 1
        j == ((i - 1) % MAX_CHUNK_SIZE) + 1
    IN {Str(DEFAULT_CATEGORY)}
       \cup (IF /\ k \in DOMAIN rawLog
                /\ rawLog[k].shape = "array"
                /\ j <= rawLog[k].len
                /\ RawItem(rawLog[k], j).kind = "object"
                /\ RawItem(rawLog[k], j).category.t = "string"
             THEN {Str(Trim(RawItem(rawLog[k], j).category.s))}
             ELSE {})

\* C3: after a run finishes, the transaction at position i has the id, date,
\* description and amount of input transaction i, and its category is the
\* default or comes from the classifier answer given for global index i
\* (element i mod 100 of the response to chunk floor(i/100)), never from an
\* answer for another index.
C3_Alignment ==
    RunJustEnded =>
        \A i \in DOMAIN transactionsWithIds :
            /\ i \in DOMAIN transactions
            /\ transactions[i].id = transactionsWithIds[i].id
            /\ transactions[i].date = transactionsWithIds[i].date
            /\ transactions[i].description = transactionsWithIds[i].description
            /\ transactions[i].amount = transactionsWithIds[i].amount
            /\ transactions[i].category \in AllowedAt(i)

C3_Witness ==
    /\ RunJustEnded
    /\ Len(transactionsWithIds) = 2 * MAX_CHUNK_SIZE + 1
    /\ Len(rawLog) = 3
    /\ rawLog[1] = ThrowOutcome
    /\ rawLog[2].shape = "array" /\ rawLog[2].pool = "good"
    /\ transactions[MAX_CHUNK_SIZE + 1].category = Str(Food)
    /\ transactions[MAX_CHUNK_SIZE + 2].category = Str(Income)

\* C4: the response validation step never raises an error and always yields
\* a list of exactly input.length results, whatever the raw model output.
C4_ValidationTotal ==
    /\ pc # "rejected"
    /\ pc = "resolved" => Len(results) = Len(input)

C4_Witness ==
    /\ pc = "resolved"
    /\ output.kind = "array"
    /\ Len(output.items) = MaxExpected
    /\ Len(input) = MaxExpected
    /\ output.items[1].kind = "null"
    /\ output.items[2].kind = "number"

\* C5: in a run split into several chunks, when the classifier call for a
\* chunk throws, the slots of that chunk in the aggregated result are all
\* {category: null}, every other chunk's slots carry that chunk's validated
\* categories, all chunks are sent to the classifier, and
\* categorizeTransactions returns normally.
C5_ChunkIsolation ==
    Len(input) > MAX_CHUNK_SIZE =>
        /\ pc # "rejected"
        /\ pc = "resolved" =>
              /\ Len(rawLog) = ChunkCount(Len(input))
              /\ \A k \in 1..ChunkCount(Len(input)) :
                    LET n == ChunkLast(k, Len(input)) - ChunkFirst(k) + 1
                        slots == SubSeq(results, ChunkFirst(k), ChunkLast(k, Len(input)))
                    IN IF rawLog[k] = ThrowOutcome
                       THEN slots = [j \in 1..n |-> [category |-> Null]]
                       ELSE slots = FlowValidate(Raw(rawLog[k]), n).value

C5_Witness ==
    /\ pc = "resolved"
    /\ Len(input) = 2 * MAX_CHUNK_SIZE + 1
    /\ Len(rawLog) = 3
    /\ rawLog[1].shape = "array" /\ rawLog[1].pool = "good"
    /\ rawLog[2] = ThrowOutcome
    /\ rawLog[3].shape = "array" /\ rawLog[3].pool = "good" /\ rawLog[3].len = 1
    /\ results[1].category = Str(Food)
    /\ results[MAX_CHUNK_SIZE + 1].category = Null
    /\ results[2 * MAX_CHUNK_SIZE + 1].category = Str(Food)

\* C6 as stated: for every input length N >= 1, including inputs that fit in
\* a single chunk, a classifier call that throws is caught inside
\* categorizeTransactions and never escapes it as an exception.
C6_Original == Len(input) >= 1 => pc # "rejected"

\* C6 amended: for N > 100 a classifier call that throws for a chunk is caught
\* inside categorizeTransactions (the chunk's entries become all-null and
\* nothing escapes); for 1 <= N <= 100 the failure escapes
\* categorizeTransactions as a rejection.
C6_CaughtOnlyWhenChunked ==
    /\ Len(input) > MAX_CHUNK_SIZE =>
          /\ pc # "rejected"
          /\ \A k \in DOMAIN rawLog :
                rawLog[k] = ThrowOutcome =>
                    \A i \in ChunkFirst(k)..ChunkLast(k, Len(input)) :
                        i \in DOMAIN results /\ results[i] = [category |-> Null]
    /\ (Len(input) \in 1..MAX_CHUNK_SIZE /\ rawLog = <<ThrowOutcome>>) => pc = "rejected"

C6_Witness ==
    /\ Len(input) = MAX_CHUNK_SIZE + 1
    /\ pc = "resolved"
    /\ rawLog[1] = ThrowOutcome
    /\ rawLog[2].shape = "array"

C8_ToastCounts ==
    \A n \in DOMAIN updateQueue :
        updateQueue[n].op = "applyResults" =>
            LET res == updateQueue[n].arg.res
            IN /\ Last(toasts).title = TitleComplete
               /\ Last(toasts).succeeded =
                     Cardinality({i \in DOMAIN res : res[i].category # Null})
               /\ Last(toasts).defaulted =
                     Cardinality({i \in DOMAIN res : res[i].category = Null})
               /\ Last(toasts).succeeded + Last(toasts).defaulted = Len(transactionsWithIds)

\* C9: once a run has finished (isLoading false, no categorization in
\* flight), no transaction in state has a null or empty category, and manual
\* updates keep it so.
C9_NoNullCategory ==
    (~isLoading /\ pc = "idle") =>
        \A i \in DOMAIN transactions :
            /\ transactions[i].category.t = "string"
            /\ transactions[i].category.s # <<>>

C9_Witness ==
    /\ ~isLoading
    /\ pc = "idle"
    /\ updateQueue = <<>>
    /\ toasts # <<>> /\ Last(toasts).title = "Category Updated"
    /\ Len(transactions) > 1
    /\ transactions[1].category = Str(Travel)
    /\ transactions[Len(transactions)].category = Str(DEFAULT_CATEGORY)
    /\ \E k \in DOMAIN rawLog : rawLog[k].shape = "array" /\ rawLog[k].pool = "mixed"

\* C10: when categorizeTransactions throws to its caller, the caller sets the
\* category of every one of the N transactions to 'Other', records
\* defaulted = N and succeeded = 0, and reports through the error
\* notification, which is not the notification of a completed run.
C10_CatchPath ==
    /\ [](  (toasts # <<>> /\ Last(toasts).title = TitleError) =>
              /\ Last(toasts).variant = "destructive"
              /\ ToastCount(TitleComplete) = 0
              /\ successfulCategorizationCount = 0
              /\ failedCategorizationCount = Len(transactionsWithIds)
              /\ IF updateQueue = <<>>
                 THEN AllOther /\ Len(transactions) = Len(transactionsWithIds)
                 ELSE \E n \in DOMAIN updateQueue : updateQueue[n].op = "defaultAll" )
    /\ [][ (pc = "rejected" /\ pc' # "rejected") =>
              /\ toasts' = Append(toasts, Toast(TitleError, "destructive", 0, 0, TRUE))
              /\ \E n \in DOMAIN updateQueue' : updateQueue'[n].op = "defaultAll" ]_vars

C10_Witness ==
    /\ RunJustEnded
    /\ Last(toasts).title = TitleError
    /\ Len(transactions) = MAX_CHUNK_SIZE
    /\ AllOther

\* the notifications that close a categorization run
RunToasts == {n \in DOMAIN toasts : toasts[n].title \in {TitleComplete, TitleError}}

\* a categorization run over at least one transaction has been started by
\* the current upload
RunStarted == uploads > 0 /\ pc # "parsing" /\ Len(transactionsWithIds) >= 1

\* C11: every categorization run over N >= 1 transactions emits exactly one
\* closing notification, at its end: none while the run is under way, and
\* once it has ended either the completion notification or the error
\* notification, never both and never none.
C11_OneNotification ==
    RunStarted =>
        IF pc = "idle"
        THEN /\ Cardinality(RunToasts) = 1
             /\ ToastCount(TitleComplete) + ToastCount(TitleError) = 1
        ELSE RunToasts = {}

C11_Witness ==
    /\ RunEnded
    /\ uploads = 2
    /\ Len(transactionsWithIds) = MAX_CHUNK_SIZE + 1
    /\ ToastCount(TitleComplete) = 1
    /\ ToastCount(TitleError) = 0
    /\ rawLog[1] = ThrowOutcome
    /\ rawLog[2].shape = "null"

\* C12: no notification shown at the end of a run contains the text of the
\* error raised by the classifier call (or other model-internal error text).
C12_NoErrorText == \A n \in RunToasts : ~toasts[n].errorText

RECURSIVE Concat(_)
Concat(ss) == IF ss = <<>> THEN <<>> ELSE Head(ss) \o Concat(Tail(ss))

\* the call of categorizeTransactions has settled
Settled == pc \in {"resolved", "rejected"}

\* C13: for every input of length N > 0 the lists sent to the classifier are
\* contiguous runs of the input in order, each of size at most 100, every one
\* except possibly the last of size exactly 100, none empty, and once the
\* call has settled their concatenation in order equals the input.
C13_Chunking ==
    Len(input) > 0 =>
        /\ \A k \in DOMAIN sent :
              /\ Len(sent[k]) \in 1..MAX_CHUNK_SIZE
              /\ k < ChunkCount(Len(input)) => Len(sent[k]) = MAX_CHUNK_SIZE
        /\ Len(Concat(sent)) <= Len(input)
        /\ Concat(sent) = SubSeq(input, 1, Len(Concat(sent)))
        /\ Settled => Concat(sent) = input

C13_Witness ==
    /\ pc = "resolved"
    /\ Len(input) = MAX_CHUNK_SIZE + 50
    /\ Len(sent) = 2
    /\ Len(sent[1]) = MAX_CHUNK_SIZE
    /\ Len(sent[2]) = 50
    /\ sent[2][1] = input[MAX_CHUNK_SIZE + 1]
    /\ sent[2][50] = input[MAX_CHUNK_SIZE + 50]

\* C14: categorizeTransactions called with an empty list produces zero
\* chunks: it issues no classifier call and returns an empty list.
C14_EmptyNoCall ==
    Len(input) = 0 =>
        /\ sent = <<>>
        /\ ~inFlight
        /\ pc # "rejected"
        /\ pc = "resolved" => results = <<>>

\* the string has a character that is not whitespace
NonBlank(str) == \E n \in DOMAIN str : str[n] \notin WS

\* what the validation rule prescribes for one raw element
ExpectedCategory(item) ==
    IF item.kind = "object" /\ item.category.t = "string" /\ NonBlank(item.category.s)
    THEN Str(Trim(item.category.s))
    ELSE Null

\* C15: when the raw model output is not an array (null, undefined, an
\* object, a string, a number), validation returns exactly input.length
\* entries, every one of them {category: null}.
C15_NonArray ==
    output.kind # "array" =>
        /\ pc # "rejected"
        /\ pc = "resolved" =>
              /\ Len(results) = Len(input)
              /\ \A i \in DOMAIN results : results[i] = [category |-> Null]

C15_Witness ==
    /\ pc = "resolved"
    /\ output.kind = "string"
    /\ Len(input) = MaxExpected
    /\ Len(results) = MaxExpected

\* C16: when the raw output is an array of length L different from the
\* expected length N, validation returns N entries: entry i < min(L, N) is
\* the validated (trimmed, or null if invalid) category of raw[i], entry i
\* with L <= i < N is null; raw elements at indices >= N have no influence.
C16_LengthRepair ==
    (output.kind = "array" /\ Len(output.items) # Len(input)) =>
        /\ pc # "rejected"
        /\ pc = "resolved" =>
              /\ Len(results) = Len(input)
              /\ \A i \in 1..Len(input) :
                    results[i].category =
                        IF i <= Len(output.items) THEN ExpectedCategory(output.items[i])
                        ELSE Null

C16_Witness ==
    /\ pc = "resolved"
    /\ output.kind = "array"
    /\ Len(output.items) = 3
    /\ Len(input) = 2
    /\ output.items[1] = ObjItem(Str(<<" ">> \o Food \o <<"\n">>))
    /\ output.items[2] = NullItem
    /\ output.items[3] = ObjItem(Str(Custom))
    /\ results[1].category = Str(Food)
    /\ results[2].category = Null

\* C17: in every list validation returns, on the equal-length path and on
\* the length-repair path, each category is null or a non-empty string equal
\* to its own trimmed form; a raw category is kept (trimmed) exactly when it
\* is a string whose trimmed form is non-empty, in the prompt's category
\* list or not; every other value (missing, null, non-string, empty,
\* whitespace-only) becomes null, never an empty string.
C17_TrimmedOrNull ==
    (pc = "resolved" /\ output.kind = "array") =>
        \A i \in DOMAIN results :
            LET c == results[i].category
                raw == ElemAt(output.items, i)
                kept == raw.kind = "object" /\ raw.category.t = "string"
                        /\ NonBlank(raw.category.s)
            IN /\ c.t \in {"null", "string"}
               /\ c.t = "string" => (c.s # <<>> /\ Trim(c.s) = c.s /\ c.s[1] \notin WS
                                      /\ c.s[Len(c.s)] \notin WS)
               /\ c.t = "string" <=> kept
               /\ kept => c.s = Trim(raw.category.s)

C17_Witness ==
    /\ pc = "resolved"
    /\ output.kind = "array"
    /\ Len(output.items) = MaxExpected
    /\ Len(input) = MaxExpected
    /\ output.items[1] = ObjItem(Str(Custom))
    /\ output.items[2] = ObjItem(Str(<<" ", "\t">>))
    /\ results[1].category = Str(Custom)
    /\ results[2].category = Null

\* a validated list handed to validation again as a raw output
AsRaw(res) == RawArr([i \in 1..Len(res) |-> ObjItem(res[i].category)])

\* an array of the expected length whose categories are all non-empty
\* strings without surrounding whitespace
WellFormed(out, n) ==
    /\ out.kind = "array"
    /\ Len(out.items) = n
    /\ \A i \in DOMAIN out.items :
          /\ out.items[i].kind = "object"
          /\ out.items[i].category.t = "string"
          /\ out.items[i].category.s # <<>>
          /\ out.items[i].category.s[1] \notin WS
          /\ out.items[i].category.s[Len(out.items[i].category.s)] \notin WS

\* C18: validation is the identity on well-formed input (same categories,
\* same order) and is idempotent: validating a validated result again, with
\* the same expected length, returns the same list.
C18_IdentityIdempotent ==
    pc = "resolved" =>
        /\ WellFormed(output, Len(input)) =>
              results = [i \in 1..Len(input) |-> [category |-> output.items[i].category]]
        /\ LET again == FlowValidate(AsRaw(results), Len(input))
           IN ~again.threw /\ again.value = results

C18_Witness ==
    /\ pc = "resolved"
    /\ WellFormed(output, Len(input))
    /\ Len(input) = MaxExpected
    /\ output.items[1] = ObjItem(Str(Custom))
    /\ output.items[2] = ObjItem(Str(Food))
    /\ results = << [category |-> Str(Custom)], [category |-> Str(Food)] >>

\* chunk k of the input, by position
Slice(k) == SubSeq(input, ChunkFirst(k), ChunkLast(k, Len(input)))

\* C19: a run over N >= 1 transactions issues exactly ceil(N/100) classifier
\* calls, one per chunk: call k carries chunk k, so no chunk is sent twice
\* (no retry after a failure or a malformed response) and none is skipped,
\* whatever the outcomes of earlier calls.
C19_OneCallPerChunk ==
    Len(input) >= 1 =>
        /\ Len(sent) <= ChunkCount(Len(input))
        /\ \A k \in DOMAIN sent : sent[k] = Slice(k)
        /\ Settled =>
              /\ Len(sent) = ChunkCount(Len(input))
              /\ Len(rawLog) = ChunkCount(Len(input))

C19_Witness ==
    /\ pc = "resolved"
    /\ Len(input) = 2 * MAX_CHUNK_SIZE + 1
    /\ Len(sent) = 3
    /\ rawLog[1] = ThrowOutcome
    /\ rawLog[2].shape = "array" /\ rawLog[2].len = MAX_CHUNK_SIZE - 1
    /\ rawLog[3].shape = "array" /\ rawLog[3].len = 1

\* the entry the answer to call k prescribes for global position i
ExpectedEntry(i) ==
    LET k == ((i - 1) \div MAX_CHUNK_SIZE) + 1
        j == ((i - 1) % MAX_CHUNK_SIZE) + 1
    IN IF rawLog[k].shape = "array" /\ j <= rawLog[k].len
       THEN [category |-> ExpectedCategory(RawItem(rawLog[k], j))]
       ELSE [category |-> Null]

\* C20: chunks are processed strictly in input order with at most one
\* classifier call in flight: call k+1 is issued only after call k has
\* resolved or rejected, and the results of chunk k occupy exactly the
\* positions [100k, 100k + size of chunk k) of the aggregated list.
C20_Sequential ==
    /\ Len(sent) - Len(rawLog) = (IF inFlight THEN 1 ELSE 0)
    /\ \A k \in DOMAIN sent : sent[k] # <<>> => sent[k][1] = input[ChunkFirst(k)]
    /\ (Chunked(input) /\ pc # "rejected") =>
          /\ Len(results) = Len(Concat(SubSeq(sent, 1, Len(rawLog))))
          /\ \A k \in DOMAIN rawLog :
                \A i \in ChunkFirst(k)..ChunkLast(k, Len(input)) :
                    i \in DOMAIN results /\ results[i] = ExpectedEntry(i)

C20_Witness ==
    /\ pc = "categorizing"
    /\ inFlight
    /\ Len(input) = 2 * MAX_CHUNK_SIZE + 1
    /\ Len(sent) = 3
    /\ Len(rawLog) = 2
    /\ rawLog[1].shape = "array" /\ rawLog[1].pool = "mixed" /\ rawLog[1].len = MAX_CHUNK_SIZE + 2
    /\ rawLog[2].shape = "array" /\ rawLog[2].pool = "good"
    /\ Len(results) = 2 * MAX_CHUNK_SIZE
    /\ results[MAX_CHUNK_SIZE].category # results[MAX_CHUNK_SIZE + 1].category

\* every classifier call of the run resolved (with an output of any shape)
NoneThrew == rawLog # <<>> /\ \A k \in DOMAIN rawLog : rawLog[k].shape # "throw"

\* positions whose validated answer is null
NullSlots == {i \in DOMAIN transactionsWithIds : ExpectedEntry(i).category = Null}

\* C21: a model response that is not an array, has the wrong length (the
\* empty array included) or contains invalid items never leads to the
\* total-failure path: the caller takes the success path, the affected
\* positions receive 'Other', and the defaulted count reported for the run
\* is the number of null slots (the succeeded count the number of the others).
C21_MalformedHandled ==
    (RunJustEnded /\ NoneThrew) =>
        /\ Last(toasts).title = TitleComplete
        /\ ToastCount(TitleError) = 0
        /\ Len(transactions) = Len(transactionsWithIds)
        /\ \A i \in NullSlots : transactions[i].category = Str(DEFAULT_CATEGORY)
        /\ Last(toasts).defaulted = Cardinality(NullSlots)
        /\ Last(toasts).succeeded = Len(transactionsWithIds) - Cardinality(NullSlots)

\* a categorization run has been started and its results (or the defaults of
\* the catch path) have not been applied to the list yet
RunInFlight ==
    \/ pc \in {"categorizing", "resolved", "rejected"}
    \/ \E n \in DOMAIN updateQueue : updateQueue[n].op \in {"applyResults", "defaultAll"}

IdsInOrder(txs) == [i \in 1..Len(txs) |-> txs[i].id]

\* the list a pending update number n of the queue is applied to
ListBefore(n) == ApplyQueue(HomeState, SubSeq(updateQueue, 1, n - 1)).transactions

\* C22: the results of a categorization run are only ever applied to the
\* list the run was started for: while a run is in flight upload and row
\* editing are disabled, no upload starts and no manual update is accepted,
\* so at most one run is in flight, and the list the results are paired with
\* position by position is the list of that run's upload.
C22_RunOwnsList ==
    /\ [](  RunInFlight =>
              /\ isLoading
              /\ pc = "categorizing" => input = ForAI(transactionsWithIds)
              /\ IdsInOrder(ApplyQueue(HomeState, updateQueue).transactions)
                    = IdsInOrder(transactionsWithIds)
              /\ \A n \in DOMAIN updateQueue :
                    updateQueue[n].op \in {"applyResults", "defaultAll"} =>
                        /\ IdsInOrder(ListBefore(n)) = IdsInOrder(transactionsWithIds)
                        /\ \A i \in DOMAIN transactionsWithIds :
                              transactionsWithIds[i].id[1] = uploads
                        /\ updateQueue[n].op = "applyResults" =>
                              Len(updateQueue[n].arg.res) = Len(ListBefore(n)) )
    /\ [][ RunInFlight => (uploads' = uploads /\ edits' = edits) ]_vars

C22_Witness ==
    /\ uploads = 2
    /\ edits = 1
    /\ pc = "idle"
    /\ \E n \in DOMAIN updateQueue : updateQueue[n].op = "applyResults"
    /\ Len(transactions) = 2 * MAX_CHUNK_SIZE + 1
    /\ transactions[1].id = <<2, 1>>
    /\ transactions[1].category = Null

\* the pending manual updates
PendingUpdates == {n \in DOMAIN updateQueue : updateQueue[n].op = "updateCategory"}

\* the list the claim prescribes after handleUpdateCategory(id, c) on prev
Edited(prev, id, c) ==
    [i \in 1..Len(prev) |->
        IF prev[i].id = id
        THEN [id |-> prev[i].id, date |-> prev[i].date, description |-> prev[i].description,
              amount |-> prev[i].amount,
              category |-> IF c = <<>> THEN Str(DEFAULT_CATEGORY) ELSE Str(c)]
        ELSE prev[i]]

\* the calls pending in q, applied to prev one after another in the order
\* they were made (every step of the page renders what is pending)
RECURSIVE EditedAll(_, _)
EditedAll(prev, q) ==
    IF q = <<>> THEN prev
    ELSE EditedAll(IF Head(q).op = "updateCategory"
                   THEN Edited(prev, Head(q).arg.id, Head(q).arg.cat)
                   ELSE prev, Tail(q))

\* C23: handleUpdateCategory(id, c) changes only the category of the
\* transaction whose id equals id, setting it to c, or to 'Other' when c is
\* empty; every other transaction, the length and order of the list and the
\* other fields of the edited transaction are unchanged, and afterwards id is
\* not in loadingCategories.
C23_UpdateFrame ==
    [][ /\ transactions' = EditedAll(transactions, updateQueue)
        /\ Len(transactions') = Len(transactions)
        /\ \A n \in PendingUpdates :
              updateQueue[n].arg.id \notin loadingCategories'
        /\ updateQueue' = <<>> => ~isUpdatingCategory' ]_vars

C23_Witness ==
    /\ edits = 1
    /\ updateQueue = <<>>
    /\ toasts # <<>> /\ Last(toasts).title = "Category Updated"
    /\ Len(transactions) = 3
    /\ transactions[1].category = Str(Food)
    /\ transactions[2].category = Str(DEFAULT_CATEGORY)
    /\ transactions[3].category = Str(Food)
    /\ loadingCategories = {}

\* total size of the first k chunks of the input
SizeOfFirst(k) == Len(Concat(SubSeq(Chunks(input), 1, k)))

\* C24: in the chunked path, after the first k chunks have been processed
\* the result buffer's length equals the sum of the sizes of those k chunks,
\* whatever each chunk's outcome was; the final length check never finds a
\* mismatch, so its pad and truncate branches are never executed.
C24_BufferLength ==
    Chunked(input) =>
        /\ pc # "rejected"
        /\ chunkIdx = Len(rawLog)
        /\ Len(results) = SizeOfFirst(chunkIdx)
        /\ ~lengthMismatch
        /\ pc = "resolved" => chunkIdx = Len(Chunks(input))

C24_Witness ==
    /\ pc = "resolved"
    /\ Len(input) = 2 * MAX_CHUNK_SIZE + 1
    /\ rawLog[1].shape = "array" /\ rawLog[1].len = MAX_CHUNK_SIZE + 2
    /\ rawLog[2].shape = "null"
    /\ rawLog[3] = ThrowOutcome
    /\ Len(results) = 2 * MAX_CHUNK_SIZE + 1
    /\ ~lengthMismatch

\* the upload attempt is over: nothing is loading and nothing is pending
UploadSettled ==
    /\ pc = "idle"
    /\ updateQueue = <<>>
    /\ ~isLoading
    /\ loadingCategories \cap Ids(transactionsWithIds) = {}

\* C25: provided every classifier call eventually resolves or rejects, every
\* upload attempt (parse success with N > 0, parse success with N = 0, parse
\* failure) eventually reaches a state where isLoading is false and
\* loadingCategories holds none of that upload's transaction ids, on the
\* success and on the failure path of categorization.
C25_UploadSettles == (pc = "parsing") ~> UploadSettled

C25_Witness ==
    /\ UploadSettled
    /\ uploads = 2
    /\ edits = 0
    /\ Len(transactionsWithIds) = MAX_CHUNK_SIZE
    /\ toasts # <<>> /\ Last(toasts).title = TitleError
    /\ transactions[1].id = <<2, 1>>

\* the expenses (negative amounts) of the displayed list whose category,
\* with null or empty read as 'Other', is c
ExpensesOf(c) ==
    {i \in DOMAIN transactions :
        /\ transactions[i].amount < 0
        /\ c = (IF transactions[i].category.t = "string" /\ transactions[i].category.s # <<>>
                THEN transactions[i].category.s ELSE DEFAULT_CATEGORY)}

RECURSIVE SumAbs(_)
SumAbs(S) ==
    IF S = {} THEN 0
    ELSE LET i == CHOOSE j \in S : TRUE
         IN Abs(transactions[i].amount) + SumAbs(S \ {i})

\* C26: the dashboard's expense summary counts only transactions with a
\* negative amount, groups a null or empty category under 'Other', and the
\* sum of all category totals equals the sum of the absolute values of the
\* negative amounts in the displayed transactions; transactions with
\* amount >= 0 never contribute to any total.
C26_SummaryTotals ==
    \A summary \in expenseSummary(transactions) :
        /\ \A n \in DOMAIN summary :
              /\ ExpensesOf(summary[n].category) # {}
              /\ summary[n].total = NumVal(SumAbs(ExpensesOf(summary[n].category)))
        /\ \A i \in DOMAIN transactions :
              transactions[i].amount < 0 =>
                  \E n \in DOMAIN summary : i \in ExpensesOf(summary[n].category)
        /\ totalExpenses(summary) =
              NumVal(SumAbs({i \in DOMAIN transactions : transactions[i].amount < 0}))

====
